---- MODULE Spec2Model ----
(***************************************************************************)
(* The claim coordinator of server.js: POST /claim serialised through the  *)
(* promise chain claimLock over the provided.txt log, together with the    *)
(* helpers readProvidedSet, appendProvidedLines and ensureDataFiles.       *)
(*                                                                         *)
(* Text is modelled as sequences of one-character strings, so that trim,   *)
(* split and join are computed the way the code computes them.             *)
(***************************************************************************)
EXTENDS Integers, Sequences, FiniteSets, TLC

(***************************************************************************)
(* Bounds of the model.                                                    *)
(***************************************************************************)
\* number of request slots, i.e. POST /claim calls that can be in flight together
MaxCalls == 2
\* longest `lines` array of a request in the serial specification
MaxBatch == 3
\* largest `limit` a request supplies
MaxLimit == 2
\* POST /provided_append is issued while the log holds fewer records than this
MaxRecords == 1
\* calls issued one after another are issued while the log holds fewer records than this
MaxLog == 3

\* the POST /claim handlers
Calls == 1..MaxCalls
\* the callback of app.listen, a GET handler and the POST /provided_append handler
Boot == 0
Getter == MaxCalls + 1
Appender == MaxCalls + 2
Threads == Calls \cup {Boot, Getter, Appender}

(***************************************************************************)
(* Text.                                                                   *)
(***************************************************************************)
SP == " "
NL == "\n"
CR == "\r"
\* the characters String.prototype.trim removes, as far as the model's alphabet goes
WhiteSpace == {SP, NL, CR}

RECURSIVE TrimStart(_)
TrimStart(s) ==
  IF s = <<>> THEN s
  ELSE IF Head(s) \in WhiteSpace THEN TrimStart(Tail(s)) ELSE s

RECURSIVE TrimEnd(_)
TrimEnd(s) ==
  IF s = <<>> THEN s
  ELSE IF s[Len(s)] \in WhiteSpace THEN TrimEnd(SubSeq(s, 1, Len(s) - 1)) ELSE s

\* s.trim()
Trim(s) == TrimEnd(TrimStart(s))

\* arr.map(s => s.trim())
RECURSIVE MapTrim(_)
MapTrim(arr) ==
  IF arr = <<>> THEN <<>> ELSE <<Trim(Head(arr))>> \o MapTrim(Tail(arr))

\* arr.filter(Boolean) on an array of strings: the empty string is the only falsy one
RECURSIVE FilterBoolean(_)
FilterBoolean(arr) ==
  IF arr = <<>> THEN <<>>
  ELSE IF Head(arr) = <<>> THEN FilterBoolean(Tail(arr))
       ELSE <<Head(arr)>> \o FilterBoolean(Tail(arr))

\* the piece before a "\n" loses one "\r" at its end: the separator is /\r?\n/
DropCR(piece) ==
  IF piece # <<>> /\ piece[Len(piece)] = CR
  THEN SubSeq(piece, 1, Len(piece) - 1) ELSE piece

\* txt.split(/\r?\n/), with cur the piece being read
RECURSIVE SplitFrom(_, _)
SplitFrom(txt, cur) ==
  IF txt = <<>> THEN <<cur>>
  ELSE IF Head(txt) = NL THEN <<DropCR(cur)>> \o SplitFrom(Tail(txt), <<>>)
       ELSE SplitFrom(Tail(txt), Append(cur, Head(txt)))

SplitLines(txt) == SplitFrom(txt, <<>>)

\* arr.join('\n')
RECURSIVE JoinLines(_)
JoinLines(arr) ==
  IF arr = <<>> THEN <<>>
  ELSE IF Len(arr) = 1 THEN Head(arr)
       ELSE Head(arr) \o <<NL>> \o JoinLines(Tail(arr))

Range(s) == {s[i] : i \in 1..Len(s)}

\* Array.from(new Set(arr)): first occurrences, in order
RECURSIVE Unique(_)
Unique(arr) ==
  IF arr = <<>> THEN <<>>
  ELSE LET init == Unique(SubSeq(arr, 1, Len(arr) - 1))
           last == arr[Len(arr)]
       IN IF last \in Range(init) THEN init ELSE Append(init, last)

(***************************************************************************)
(* The Durable Line Store.                                                 *)
(***************************************************************************)
\* readProvidedSet, after the file is read: the records as an array, then as a Set
ProvidedLines(txt) == FilterBoolean(MapTrim(SplitLines(txt)))
ReadSet(txt) == Range(ProvidedLines(txt))

\* appendProvidedLines: the deduplicated, trimmed, non-blank lines it writes
UniqueLines(lines) == Unique(FilterBoolean(MapTrim(lines)))
\* appendProvidedLines: the text handed to fs.appendFile
ToWrite(lines) == JoinLines(UniqueLines(lines)) \o <<NL>>

(***************************************************************************)
(* POST /claim: the request and the decision loop.                         *)
(***************************************************************************)
\* req.body.lines: an array of strings, or something that is no array (missing, a
\* string, an object); req.body.limit: <<n>> when the number n is supplied, <<>> when absent
ArrayOf(items) == [isArray |-> TRUE, items |-> items]
NotArray == [isArray |-> FALSE, items |-> <<>>]
NoLimit == <<>>
LimitOf(n) == <<n>>

\* line 115
Candidates(lines) ==
  IF lines.isArray THEN FilterBoolean(MapTrim(lines.items)) ELSE <<>>

\* Number(req.body.limit) || candidates.length: NaN (limit absent) and 0 are falsy
NumberOr(lim, n) == IF lim = NoLimit THEN n ELSE IF lim[1] = 0 THEN n ELSE lim[1]
Max(a, b) == IF a >= b THEN a ELSE b
Min(a, b) == IF a <= b THEN a ELSE b
\* Limit with Math.min written for Math.max
LimitMin(lim, cands) == Min(0, NumberOr(lim, Len(cands)))

\* line 116
Limit(lim, cands) == Max(0, NumberOr(lim, Len(cands)))

\* ClaimLoop with claimed.length > limit at line 129
RECURSIVE ClaimLoopOffByOne(_, _, _, _, _, _)
ClaimLoopOffByOne(cands, i, lim, providedSet, claimed, rejected) ==
  IF i > Len(cands)
  THEN [claimed |-> claimed, rejected |-> rejected, providedSet |-> providedSet]
  ELSE LET c == cands[i] IN
       IF Len(claimed) > lim
       THEN ClaimLoopOffByOne(cands, i + 1, lim, providedSet, claimed,
                              Append(rejected, c))
       ELSE IF c \in providedSet
            THEN ClaimLoopOffByOne(cands, i + 1, lim, providedSet, claimed,
                                   Append(rejected, c))
            ELSE ClaimLoopOffByOne(cands, i + 1, lim, providedSet \cup {c},
                                   Append(claimed, c), rejected)

\* one pass of the for loop of lines 128-140 over cands[i..]
RECURSIVE ClaimLoop(_, _, _, _, _, _)
ClaimLoop(cands, i, lim, providedSet, claimed, rejected) ==
  IF i > Len(cands)
  THEN [claimed |-> claimed, rejected |-> rejected, providedSet |-> providedSet]
  ELSE LET c == cands[i] IN
       IF Len(claimed) >= lim
       THEN ClaimLoop(cands, i + 1, lim, providedSet, claimed, Append(rejected, c))
       ELSE IF c \in providedSet
            THEN ClaimLoop(cands, i + 1, lim, providedSet, claimed, Append(rejected, c))
            ELSE ClaimLoop(cands, i + 1, lim, providedSet \cup {c},
                           Append(claimed, c), rejected)

\* lines 125-140: the partition decided against the snapshot
Decide(cands, lim, providedSet) == ClaimLoop(cands, 1, lim, providedSet, <<>>, <<>>)

(***************************************************************************)
(* Inputs.                                                                 *)
(***************************************************************************)
X == <<"x">>
Y == <<"y">>
Z == <<"z">>
\* an identifier with a line break between its first and its last character
XY == <<"x", NL, "y">>
\* the identifiers of the model
Identifiers == {X, Y, Z, XY}
\* an identifier with blanks around it, and a blank token
PaddedX == <<SP, "x", SP>>
Blank == <<SP>>
\* the strings a request may carry
RawTokens == Identifiers \cup {PaddedX, Blank}

SeqsUpTo(S, n) == UNION {[1..k -> S] : k \in 0..n}
\* the request bodies of the single-call specification
SerialLines == {ArrayOf(a) : a \in SeqsUpTo(RawTokens, MaxBatch)} \cup {NotArray}
Limits == {NoLimit} \cup {LimitOf(n) : n \in (-1)..MaxLimit}
\* the request bodies of the concurrent specification
ClaimBodies ==
  {[lines |-> ArrayOf(<<Y>>), limit |-> NoLimit],
   [lines |-> ArrayOf(<<X, Y, Z>>), limit |-> LimitOf(1)],
   [lines |-> ArrayOf(<<PaddedX, Blank, X>>), limit |-> NoLimit]}
\* the logs a data directory may hold when the server starts
SeedLogs == {<<>>, ToWrite(<<X>>), ToWrite(<<X>>) \o ToWrite(<<X>>),
             ToWrite(<<Z, X>>)}
BurstSeedLogs == {<<>>, ToWrite(<<X>>)}
\* the request bodies of POST /provided_append
AppendLines == {ArrayOf(<<Y>>), ArrayOf(<<PaddedX, X, Blank>>), NotArray}
\* the request bodies of POST /provided_append calls issued one after another
IngestLines == AppendLines \cup {ArrayOf(<<Z, Y>>), ArrayOf(<<Blank>>), ArrayOf(<<>>)}
\* the request bodies of POST /claim when every endpoint is in use
FewBodies ==
  {[lines |-> ArrayOf(<<Y>>), limit |-> NoLimit]}
\* the request bodies of concurrent POST /claim calls, malformed and blank ones included
QueueBodies ==
  {[lines |-> ArrayOf(<<Y>>), limit |-> NoLimit],
   [lines |-> ArrayOf(<<X, Y, Z>>), limit |-> LimitOf(1)],
   [lines |-> NotArray, limit |-> NoLimit],
   [lines |-> ArrayOf(<<Blank, Blank>>), limit |-> LimitOf(1)],
   [lines |-> ArrayOf(<<>>), limit |-> NoLimit]}
\* the request bodies of POST /claim calls issued one after another
LineBodies ==
  {[lines |-> ArrayOf(<<XY>>), limit |-> NoLimit],
   [lines |-> ArrayOf(<<X>>), limit |-> NoLimit],
   [lines |-> ArrayOf(<<Y, X>>), limit |-> NoLimit]}

(***************************************************************************)
(* State.                                                                  *)
(***************************************************************************)
VARIABLES
  providedExists,  \* fsSync.existsSync(PROVIDED_FILE)
  providedTxt,     \* the content of PROVIDED_FILE
  claimLock,       \* the promise chain: the cycles chained and not yet settled, oldest first
  pc,              \* where each handler stands
  body,            \* req.body of each handler
  candidates,      \* const candidates (line 115)
  limit,           \* const limit (line 116)
  work,            \* claimed and rejected of the running cycle
  resp,            \* the response sent
  appBody,         \* req.body.lines of the POST /provided_append handler
  appResp,         \* the response POST /provided_append sent
  grants,          \* history: how often each identifier was returned in a `claimed` list
  issuedOn,        \* history: the call's candidates that were in the log when it was issued
  before,          \* history: the log text when the running cycle started
  snapshot         \* history: <<S>> once readProvidedSet has returned S to the cycle

vars == <<providedExists, providedTxt, claimLock, pc, body, candidates, limit,
          work, resp, appBody, appResp, grants, issuedOn, before, snapshot>>

store == <<providedExists, providedTxt>>
request == <<body, candidates, limit, issuedOn>>
ingest == <<appBody, appResp>>

NoBody == [lines |-> NotArray, limit |-> NoLimit]
NoWork == [claimed |-> <<>>, rejected |-> <<>>]
NoResp == [status |-> 0, claimed |-> <<>>, rejected |-> <<>>, error |-> FALSE]
NoAppResp == [status |-> 0, ok |-> FALSE, added |-> 0]

\* a slot holds no handler: never used (or dropped by a restart), or answered
Free == {"idle", "done"}

\* the server has started and its listen callback has finished
Started == [t \in Threads |-> "idle"]
\* the server has just started: the listen callback is in ensureDataFiles, suspended
\* at fs.mkdir (lines 167-168)
Starting == [t \in Threads |-> IF t = Boot THEN "bEnsure" ELSE "idle"]

InitCalls ==
  /\ claimLock = <<>>
  /\ appBody = NotArray
  /\ appResp = NoAppResp
  /\ body = [r \in Calls |-> NoBody]
  /\ candidates = [r \in Calls |-> <<>>]
  /\ limit = [r \in Calls |-> 0]
  /\ work = [r \in Calls |-> NoWork]
  /\ resp = [r \in Calls |-> NoResp]
  /\ grants = [x \in Identifiers |-> 0]
  /\ issuedOn = [r \in Calls |-> {}]
  /\ before = [r \in Calls |-> <<>>]
  /\ snapshot = [r \in Calls |-> <<>>]

(***************************************************************************)
(* POST /claim.                                                            *)
(***************************************************************************)
\* the slot the next handler takes: a slot never used before one already answered
NextSlot(r) ==
  /\ pc[r] \in Free
  /\ \A q \in Calls : q < r => pc[q] \notin Free \/ (pc[q] = "done" /\ pc[r] = "idle")
  /\ pc[r] = "done" => \A q \in Calls : pc[q] # "idle"

Count(x, arr) == Cardinality({i \in 1..Len(arr) : arr[i] = x})

\* lines 155-156: the body of the response for what the cycle's promise resolved
\* with; res.json answers with status 200
Response(res) ==
  [status |-> 200, claimed |-> res.claimed, rejected |-> res.rejected,
   error |-> res.error]

\* Claim without the early return of lines 118-120
ClaimChainsEmpty(r, lines, lim) ==
  /\ pc[r] \in Free
  /\ LET cands == Candidates(lines) IN
     /\ body' = [body EXCEPT ![r] = [lines |-> lines, limit |-> lim]]
     /\ candidates' = [candidates EXCEPT ![r] = cands]
     /\ limit' = [limit EXCEPT ![r] = Limit(lim, cands)]
     /\ claimLock' = Append(claimLock, r)
     /\ resp' = [resp EXCEPT ![r] = NoResp]
     /\ pc' = [pc EXCEPT ![r] = "queued"]
  /\ work' = [work EXCEPT ![r] = NoWork]
  /\ issuedOn' = [issuedOn EXCEPT ![r] =
                     ReadSet(providedTxt) \cap Range(Candidates(lines))]
  /\ before' = [before EXCEPT ![r] = <<>>]
  /\ snapshot' = [snapshot EXCEPT ![r] = <<>>]
  /\ UNCHANGED <<store, grants, ingest>>

\* lines 114-122 and the evaluation of `await claimLock` at line 154: they run
\* without suspension, so the promise awaited is the one line 122 has just stored
Claim(r, lines, lim) ==
  /\ pc[r] \in Free
  /\ LET cands == Candidates(lines) IN
     /\ body' = [body EXCEPT ![r] = [lines |-> lines, limit |-> lim]]
     /\ candidates' = [candidates EXCEPT ![r] = cands]
     /\ limit' = [limit EXCEPT ![r] = Limit(lim, cands)]
     /\ IF cands = <<>>
        THEN /\ resp' = [resp EXCEPT ![r] = [NoResp EXCEPT !.status = 200]]
             /\ pc' = [pc EXCEPT ![r] = "done"]
             /\ UNCHANGED claimLock
        ELSE /\ claimLock' = Append(claimLock, r)
             /\ resp' = [resp EXCEPT ![r] = NoResp]
             /\ pc' = [pc EXCEPT ![r] = "queued"]
  /\ work' = [work EXCEPT ![r] = NoWork]
  /\ issuedOn' = [issuedOn EXCEPT ![r] =
                     ReadSet(providedTxt) \cap Range(Candidates(lines))]
  /\ before' = [before EXCEPT ![r] = <<>>]
  /\ snapshot' = [snapshot EXCEPT ![r] = <<>>]
  /\ UNCHANGED <<store, grants, ingest>>

\* CycleStart with the callback run at once instead of chained on claimLock
CycleStartUnchained(r) ==
  /\ pc[r] = "queued"
  /\ pc' = [pc EXCEPT ![r] = "rEnsure"]
  /\ before' = [before EXCEPT ![r] = providedTxt]
  /\ UNCHANGED <<store, claimLock, request, work, resp, grants, snapshot, ingest>>

\* CycleStart with the callbacks of the chain run newest first
CycleStartLast(r) ==
  /\ pc[r] = "queued"
  /\ claimLock # <<>> /\ claimLock[Len(claimLock)] = r
  /\ pc' = [pc EXCEPT ![r] = "rEnsure"]
  /\ before' = [before EXCEPT ![r] = providedTxt]
  /\ UNCHANGED <<store, claimLock, request, work, resp, grants, snapshot, ingest>>

\* the callback of claimLock.then runs once every cycle chained before it has
\* settled; it enters readProvidedSet and ensureDataFiles and suspends at fs.mkdir
CycleStart(r) ==
  /\ pc[r] = "queued"
  /\ claimLock # <<>> /\ Head(claimLock) = r
  /\ pc' = [pc EXCEPT ![r] = "rEnsure"]
  /\ before' = [before EXCEPT ![r] = providedTxt]
  /\ UNCHANGED <<store, claimLock, request, work, resp, grants, snapshot, ingest>>

\* ensureDataFiles, line 28: the existence check, and fs.writeFile started when
\* the file is missing
EnsureCheck(t, at, creating, next) ==
  /\ pc[t] = at
  /\ pc' = [pc EXCEPT ![t] = IF providedExists THEN next ELSE creating]
  /\ UNCHANGED <<store, claimLock, request, work, resp, grants, before, snapshot,
                 ingest>>

\* ensureDataFiles, line 28: fs.writeFile(PROVIDED_FILE, '') completes; it creates
\* the file or empties the one that is there
EnsureCreate(t, creating, next) ==
  /\ pc[t] = creating
  /\ providedExists' = TRUE
  /\ providedTxt' = <<>>
  /\ pc' = [pc EXCEPT ![t] = next]
  /\ UNCHANGED <<claimLock, request, work, resp, grants, before, snapshot, ingest>>

\* lines 146-163: the cycle's promise resolves with res, the chain moves on to the
\* next callback, and the handler, which awaits this promise, answers
Settle(r, res) ==
  /\ claimLock' = Tail(claimLock)
  /\ pc' = [pc EXCEPT ![r] = "done"]
  /\ work' = [work EXCEPT ![r] = NoWork]
  /\ before' = [before EXCEPT ![r] = <<>>]
  /\ resp' = [resp EXCEPT ![r] = Response(res)]
  /\ grants' = [x \in Identifiers |-> grants[x] + Count(x, res.claimed)]

\* Caught with rejected: [] at line 149
CaughtEmpty(cands) == [claimed |-> <<>>, rejected |-> <<>>, error |-> TRUE]

\* lines 147-150
Caught(cands) == [claimed |-> <<>>, rejected |-> cands, error |-> TRUE]

\* line 146
Returned(claimed, rejected) ==
  [claimed |-> claimed, rejected |-> rejected, error |-> FALSE]

ReadEnsure(r) == EnsureCheck(r, "rEnsure", "rCreate", "rRead")
ReadCreate(r) == EnsureCreate(r, "rCreate", "rRead")

\* lines 52-54 and 125-146: fs.readFile completes, the loop runs, and the cycle
\* either returns (nothing claimed) or enters appendProvidedLines
ReadDone(r) ==
  /\ pc[r] = "rRead"
  /\ providedExists
  /\ LET providedSet == ReadSet(providedTxt)
         d == Decide(candidates[r], limit[r], providedSet)
     IN /\ snapshot' = [snapshot EXCEPT ![r] = <<providedSet>>]
        /\ IF Len(d.claimed) > 0
           THEN /\ work' = [work EXCEPT ![r] =
                              [claimed |-> d.claimed, rejected |-> d.rejected]]
                /\ pc' = [pc EXCEPT ![r] = "aEnsure"]
                /\ UNCHANGED <<claimLock, resp, grants, before>>
           ELSE Settle(r, Returned(d.claimed, d.rejected))
  /\ UNCHANGED <<store, request, ingest>>

\* ReadFail without the catch of lines 147-150: the cycle's promise rejects, the
\* handler answers from line 162, and the callbacks chained behind never run
ReadFailRejects(r) ==
  /\ pc[r] \in {"rEnsure", "rCreate", "rRead"}
  /\ pc' = [pc EXCEPT ![r] = "done"]
  /\ work' = [work EXCEPT ![r] = NoWork]
  /\ before' = [before EXCEPT ![r] = <<>>]
  /\ resp' = [resp EXCEPT ![r] = [Response(Caught(candidates[r])) EXCEPT !.status = 500]]
  /\ UNCHANGED <<store, claimLock, request, grants, snapshot, ingest>>

\* readProvidedSet throws (ensureDataFiles or fs.readFile rejects): lines 147-150
ReadFail(r) ==
  /\ pc[r] \in {"rEnsure", "rCreate", "rRead"}
  /\ Settle(r, Caught(candidates[r]))
  /\ UNCHANGED <<store, request, snapshot, ingest>>

AppendEnsure(r) == EnsureCheck(r, "aEnsure", "aCreate", "aAppend")
AppendCreate(r) == EnsureCreate(r, "aCreate", "aAppend")

\* lines 61-65 and 146: fs.appendFile completes and the cycle returns
AppendDone(r) ==
  /\ pc[r] = "aAppend"
  /\ providedExists' = TRUE
  /\ providedTxt' = providedTxt \o ToWrite(work[r].claimed)
  /\ Settle(r, Returned(work[r].claimed, work[r].rejected))
  /\ UNCHANGED <<request, snapshot, ingest>>

\* AppendFail with the throw after fs.appendFile has written
AppendFailWritten(r) ==
  /\ pc[r] \in {"aEnsure", "aCreate", "aAppend"}
  /\ providedExists' = TRUE
  /\ providedTxt' = providedTxt \o ToWrite(work[r].claimed)
  /\ Settle(r, Caught(candidates[r]))
  /\ UNCHANGED <<request, snapshot, ingest>>

\* appendProvidedLines throws (ensureDataFiles or fs.appendFile rejects, nothing
\* written): lines 147-150
AppendFail(r) ==
  /\ pc[r] \in {"aEnsure", "aCreate", "aAppend"}
  /\ Settle(r, Caught(candidates[r]))
  /\ UNCHANGED <<store, request, snapshot, ingest>>

\* the process is stopped and started again: claimLock is Promise.resolve() anew
\* (line 73), the handlers in flight are gone, the data directory stays
Restart ==
  /\ claimLock' = <<>>
  /\ pc' = [t \in Threads |-> IF t \in Calls /\ pc[t] = "done" THEN "done"
                               ELSE Starting[t]]
  /\ body' = [r \in Calls |-> IF pc[r] \in Free THEN body[r] ELSE NoBody]
  /\ candidates' = [r \in Calls |-> IF pc[r] \in Free THEN candidates[r] ELSE <<>>]
  /\ limit' = [r \in Calls |-> IF pc[r] \in Free THEN limit[r] ELSE 0]
  /\ before' = [r \in Calls |-> IF pc[r] \in Free THEN before[r] ELSE <<>>]
  /\ issuedOn' = [r \in Calls |-> IF pc[r] \in Free THEN issuedOn[r] ELSE {}]
  /\ snapshot' = [r \in Calls |-> IF pc[r] \in Free THEN snapshot[r] ELSE <<>>]
  /\ work' = [r \in Calls |-> NoWork]
  /\ appBody' = NotArray
  /\ UNCHANGED <<store, resp, grants, appResp>>

(***************************************************************************)
(* Specifications.                                                         *)
(***************************************************************************)
\* lines 167-168: the listen callback's ensureDataFiles
BootEnsure == EnsureCheck(Boot, "bEnsure", "bCreate", "idle")
BootCreate == EnsureCreate(Boot, "bCreate", "idle")

\* lines 79-95: GET /logs.txt, /provided.txt and /keys.txt call ensureDataFiles and
\* send a file
Get ==
  /\ pc[Getter] = "idle"
  /\ pc' = [pc EXCEPT ![Getter] = "gEnsure"]
  /\ UNCHANGED <<store, claimLock, request, work, resp, grants, before, snapshot,
                 ingest>>
GetEnsure == EnsureCheck(Getter, "gEnsure", "gCreate", "idle")
GetCreate == EnsureCreate(Getter, "gCreate", "idle")

\* lines 98-107 and 59-60: POST /provided_append; appendProvidedLines returns 0
\* at once for an empty array, else enters ensureDataFiles
ProvidedAppend(lines) ==
  /\ pc[Appender] = "idle"
  /\ IF lines.isArray /\ Len(lines.items) > 0
     THEN /\ pc' = [pc EXCEPT ![Appender] = "pEnsure"]
          /\ appBody' = lines
          /\ appResp' = NoAppResp
     ELSE /\ appResp' = [status |-> 200, ok |-> TRUE, added |-> 0]
          /\ UNCHANGED <<pc, appBody>>
  /\ UNCHANGED <<store, claimLock, request, work, resp, grants, before, snapshot>>

ProvidedEnsure == EnsureCheck(Appender, "pEnsure", "pCreate", "pAppend")
ProvidedCreate == EnsureCreate(Appender, "pCreate", "pAppend")

\* lines 61-65 and 102: nothing is written when no line is left after the filter;
\* else fs.appendFile completes and `added` is the number of lines written
ProvidedDone ==
  /\ pc[Appender] = "pAppend"
  /\ LET unique == UniqueLines(appBody.items) IN
       IF unique = <<>>
       THEN /\ appResp' = [status |-> 200, ok |-> TRUE, added |-> 0]
            /\ UNCHANGED store
       ELSE /\ appResp' = [status |-> 200, ok |-> TRUE, added |-> Len(unique)]
            /\ providedExists' = TRUE
            /\ providedTxt' = providedTxt \o ToWrite(appBody.items)
  /\ pc' = [pc EXCEPT ![Appender] = "idle"]
  /\ appBody' = NotArray
  /\ UNCHANGED <<claimLock, request, work, resp, grants, before, snapshot>>

\* lines 103-106: appendProvidedLines throws
ProvidedFail ==
  /\ pc[Appender] \in {"pEnsure", "pCreate", "pAppend"}
  /\ appResp' = [status |-> 500, ok |-> FALSE, added |-> 0]
  /\ pc' = [pc EXCEPT ![Appender] = "idle"]
  /\ appBody' = NotArray
  /\ UNCHANGED <<store, claimLock, request, work, resp, grants, before, snapshot>>

\* the steps of a claim cycle on a data directory that holds its files
CycleStep(r) ==
  \/ CycleStart(r)
  \/ ReadEnsure(r)
  \/ ReadFail(r)
  \/ ReadDone(r)
  \/ AppendEnsure(r)
  \/ AppendFail(r)
  \/ AppendDone(r)

\* SpecClaim: the server runs on an initialised data directory and its callers
\* issue POST /claim only, concurrently; file operations may fail; the process
\* may restart
InitClaim ==
  /\ providedExists = TRUE
  /\ providedTxt \in BurstSeedLogs
  /\ pc = Started
  /\ InitCalls

NextClaim ==
  \/ \E r \in Calls : NextSlot(r) /\ \E b \in ClaimBodies : Claim(r, b.lines, b.limit)
  \/ \E r \in Calls : CycleStep(r)
  \/ Restart
  \/ BootEnsure

SpecClaim == InitClaim /\ [][NextClaim]_vars

\* SpecOne: one POST /claim call on a seeded log, with every request body of the
\* bounds
InitOne ==
  /\ providedExists = TRUE
  /\ providedTxt \in SeedLogs
  /\ pc = Started
  /\ InitCalls

NextOne ==
  \/ pc[1] = "idle" /\ \E lines \in SerialLines, lim \in Limits : Claim(1, lines, lim)
  \/ CycleStep(1)

SpecOne == InitOne /\ [][NextOne]_vars

\* SpecLive: concurrent POST /claim calls on an initialised data directory in a
\* process that keeps running; every file operation started completes, with
\* success or with an error, so a cycle that can take a step takes one
NextLive ==
  \/ \E r \in Calls : NextSlot(r) /\ \E b \in QueueBodies : Claim(r, b.lines, b.limit)
  \/ \E r \in Calls : CycleStep(r)

SpecLive == InitClaim /\ [][NextLive]_vars /\ WF_vars(\E r \in Calls : CycleStep(r))

\* SpecLines: POST /claim calls issued one after another, each after the answer to
\* the one before, on a log that starts empty and that only claim cycles write
InitLines ==
  /\ providedExists = TRUE
  /\ providedTxt = <<>>
  /\ pc = Started
  /\ InitCalls

NextLines ==
  \/ /\ claimLock = <<>>
     /\ Len(ProvidedLines(providedTxt)) < MaxLog
     /\ \E r \in Calls : NextSlot(r) /\ \E b \in LineBodies : Claim(r, b.lines, b.limit)
  \/ \E r \in Calls : CycleStep(r)

SpecLines == InitLines /\ [][NextLines]_vars

\* SpecIngest: POST /provided_append calls issued one after another on a seeded
\* log, with no other endpoint in use
NextIngest ==
  \/ /\ Len(ProvidedLines(providedTxt)) < MaxLog
     /\ \E lines \in IngestLines : ProvidedAppend(lines)
  \/ ProvidedEnsure
  \/ ProvidedDone
  \/ ProvidedFail

SpecIngest == InitOne /\ [][NextIngest]_vars

\* Spec: the whole server on a fresh data directory, every endpoint in use
Init ==
  /\ providedExists = FALSE
  /\ providedTxt = <<>>
  /\ pc = Starting
  /\ InitCalls

Next ==
  \/ \E r \in Calls : NextSlot(r) /\ \E b \in FewBodies : Claim(r, b.lines, b.limit)
  \/ \E r \in Calls : CycleStep(r) \/ ReadCreate(r) \/ AppendCreate(r)
  \/ BootEnsure
  \/ BootCreate
  \/ Get
  \/ GetEnsure
  \/ GetCreate
  \/ /\ Len(ProvidedLines(providedTxt)) < MaxRecords
     /\ \E lines \in AppendLines : ProvidedAppend(lines)
  \/ ProvidedEnsure
  \/ ProvidedCreate
  \/ ProvidedDone
  \/ ProvidedFail
  \/ Restart

Spec == Init /\ [][Next]_vars

(***************************************************************************)
(* Properties.                                                             *)
(***************************************************************************)
\* the handler of slot r has sent its response
Answered(r) == pc[r] = "done" /\ resp[r].status # 0
\* the cycle of slot r settles in this step and its handler answers
Answers(r) == pc[r] \notin Free /\ pc'[r] = "done"

\* the elements of arr at the positions P, in order
RECURSIVE Pick(_, _, _)
Pick(arr, P, i) ==
  IF i > Len(arr) THEN <<>>
  ELSE (IF i \in P THEN <<arr[i]>> ELSE <<>>) \o Pick(arr, P, i + 1)

\* the positions of the novel candidates: absent from the snapshot S, first occurrence
NovelAt(cands, S) ==
  {i \in 1..Len(cands) : cands[i] \notin S /\ \A j \in 1..(i - 1) : cands[j] # cands[i]}
\* the first k of a set of positions
FirstOf(P, k) == {i \in P : Cardinality({j \in P : j < i}) < k}

\* C1. Uniqueness, as claimed: over all the responses POST /claim has sent, every identifier
\* appears in `claimed` at most once: in at most one response, and once in it.
C1_Uniqueness == \A x \in Identifiers : grants[x] <= 1

\* C2. Concurrency safety: when every slot holds an answered call that proposed
\* the same identifier with no limit, was issued while the identifier was not in
\* the log, and met no I/O failure, exactly one response has the identifier in
\* `claimed` and every other one has it in `rejected`.
C2_OneWinner ==
  \A x \in Identifiers :
    (\A r \in Calls : /\ Answered(r) /\ ~resp[r].error
                      /\ x \in Range(candidates[r])
                      /\ body[r].limit = NoLimit
                      /\ x \notin issuedOn[r])
    => /\ Cardinality({r \in Calls : x \in Range(resp[r].claimed)}) = 1
       /\ \A r \in Calls : x \notin Range(resp[r].claimed)
                             => x \in Range(resp[r].rejected)

\* C2 witness: every slot holds an answered call for [y], issued while y was not
\* in the log.
C2_Witness ==
  \A r \in Calls : /\ Answered(r) /\ ~resp[r].error
                   /\ candidates[r] = <<Y>>
                   /\ body[r].limit = NoLimit
                   /\ Y \notin issuedOn[r]

\* C3. Limit respect, as claimed: a call that supplies a limit n >= 0 is granted
\* at most n identifiers.
C3_LimitRespect ==
  \A r \in Calls :
    (Answered(r) /\ body[r].limit # NoLimit /\ body[r].limit[1] >= 0)
      => Len(resp[r].claimed) <= body[r].limit[1]

\* C4. Coverage: the `claimed` and `rejected` of a response hold together exactly
\* the trimmed, non-blank candidates of the same call, each as often as the call
\* proposed it.
C4_Coverage ==
  \A r \in Calls :
    Answered(r) =>
      LET cands == FilterBoolean(MapTrim(body[r].lines.items))
          both == resp[r].claimed \o resp[r].rejected
      IN /\ Len(both) = Len(cands)
         /\ \A t \in Range(cands) \cup Range(both) : Count(t, both) = Count(t, cands)

\* C4 witness: a call with a padded and a blank token was answered beside a call
\* of three candidates whose cycle failed.
C4_Witness ==
  \E r, q \in Calls :
    /\ r # q /\ Answered(r) /\ Answered(q)
    /\ body[r].lines.items = <<PaddedX, Blank, X>>
    /\ resp[r].claimed = <<X>> /\ resp[r].rejected = <<X>>
    /\ resp[q].error /\ resp[q].rejected = <<X, Y, Z>>

\* C5. Re-submission, as claimed: a response never has in `claimed` an identifier that an
\* earlier response already had in `claimed`; it has it in `rejected`. Restarts
\* are steps of the specification.
C5_Resubmission ==
  [][\A r \in Calls :
       Answers(r) =>
         \A x \in Range(candidates[r]) :
           grants[x] >= 1 => /\ x \notin Range(resp'[r].claimed)
                             /\ x \in Range(resp'[r].rejected)]_vars

C7_FailureSignal ==
  \A r \in Calls : (Answered(r) /\ resp[r].error) => resp[r].status \notin 200..299

\* C8. Limit priority: with a limit k > 0 and more than k novel candidates, a
\* successful cycle claims the first k novel candidates in input order and
\* rejects every other candidate.
C8_LimitPriority ==
  \A r \in Calls :
    (Answered(r) /\ ~resp[r].error /\ snapshot[r] # <<>> /\ body[r].limit # NoLimit) =>
      LET cands == FilterBoolean(MapTrim(body[r].lines.items))
          k == body[r].limit[1]
          novel == NovelAt(cands, snapshot[r][1])
          first == FirstOf(novel, k)
      IN (k > 0 /\ Cardinality(novel) > k) =>
           /\ resp[r].claimed = Pick(cands, first, 1)
           /\ resp[r].rejected = Pick(cands, (1..Len(cands)) \ first, 1)

\* C8 witness: [x, y, z] with limit 2 on a log without them: x and y claimed, z
\* rejected.
C8_Witness ==
  \E r \in Calls :
    /\ Answered(r) /\ ~resp[r].error
    /\ body[r].lines.items = <<X, Y, Z>> /\ body[r].limit = LimitOf(2)
    /\ snapshot[r] = <<{}>>
    /\ resp[r].claimed = <<X, Y>> /\ resp[r].rejected = <<Z>>

\* C9. Partition without a limit: a successful cycle of a call with no limit
\* claims the first occurrences of the candidates absent from the snapshot and
\* rejects the remaining candidates, both in input order.
C9_Partition ==
  \A r \in Calls :
    (Answered(r) /\ ~resp[r].error /\ snapshot[r] # <<>> /\ body[r].limit = NoLimit) =>
      LET cands == FilterBoolean(MapTrim(body[r].lines.items))
          novel == NovelAt(cands, snapshot[r][1])
      IN /\ resp[r].claimed = Pick(cands, novel, 1)
         /\ resp[r].rejected = Pick(cands, (1..Len(cands)) \ novel, 1)

\* C9 witness: [x, y, x] on an empty log gives claimed [x, y] and rejected [x].
C9_Witness ==
  \E r \in Calls :
    /\ Answered(r) /\ ~resp[r].error
    /\ body[r].lines.items = <<X, Y, X>> /\ body[r].limit = NoLimit
    /\ snapshot[r] = <<{}>>
    /\ resp[r].claimed = <<X, Y>> /\ resp[r].rejected = <<X>>

\* C10. Only grants are persisted, as claimed: the records of the log after a successful
\* cycle are the records it had when the cycle started followed by the cycle's
\* `claimed`, and the text is untouched when `claimed` is empty.
C10_OnlyGrants ==
  [][\A r \in Calls :
       (Answers(r) /\ ~resp'[r].error /\ candidates[r] # <<>>) =>
         /\ ProvidedLines(providedTxt') = ProvidedLines(before[r]) \o resp'[r].claimed
         /\ resp'[r].claimed = <<>> => providedTxt' = before[r]]_vars

\* C11. Log mirrors the Granted Set, as claimed: when appendProvidedLines has
\* written the identifiers a cycle claimed, the set readProvidedSet returns holds
\* each of them, and it is the set read before united with exactly them.
C11_LogMirrors ==
  [][\A r \in Calls :
       (pc[r] = "aAppend" /\ Answers(r) /\ ~resp'[r].error) =>
         /\ Range(resp'[r].claimed) \subseteq ReadSet(providedTxt')
         /\ ReadSet(providedTxt') = ReadSet(providedTxt) \cup Range(resp'[r].claimed)]_vars

\* C12. Ingestion count, as claimed: `added` in the answer of POST
\* /provided_append is the number of identifiers of the request that the log did
\* not hold before the call.
C12_AddedCount ==
  [][(pc[Appender] = "pAppend" /\ pc'[Appender] = "idle" /\ appResp'.status = 200) =>
       appResp'.added =
         Cardinality(Range(UniqueLines(appBody.items)) \ ReadSet(providedTxt))]_vars

\* the cycle of slot r is between the start of its log read and the end of its append
Running == {"rEnsure", "rCreate", "rRead", "aEnsure", "aCreate", "aAppend"}
InCycle(r) == pc[r] \in Running
\* the position of slot r in the chain, 0 when it is not chained
RECURSIVE IndexOf(_, _, _)
IndexOf(r, q, i) ==
  IF i > Len(q) THEN 0 ELSE IF q[i] = r THEN i ELSE IndexOf(r, q, i + 1)

\* C13. Mutual exclusion of cycles: at most one claim cycle is between the start
\* of its log read and the end of its log append, and while a cycle is there the
\* log is changed by no step but its own.
C13_MutualExclusion ==
  /\ [](Cardinality({r \in Calls : InCycle(r)}) <= 1)
  /\ [][\A r \in Calls :
         (InCycle(r) /\ providedTxt' # providedTxt) =>
           /\ pc[r] = "aAppend" /\ pc'[r] = "done"
           /\ \A q \in Calls \ {r} : pc'[q] = pc[q]]_vars

\* C13 witness: a cycle has read the log and is suspended at its append while
\* another call for the same identifier waits in the chain.
C13_Witness ==
  \E r, q \in Calls :
    /\ r # q /\ pc[r] = "aAppend" /\ pc[q] = "queued"
    /\ work[r].claimed = <<Y>> /\ candidates[q] = <<Y>>

\* C16. FIFO admission: a call is chained behind every call chained before it; a
\* cycle starts, and settles, only as the oldest cycle of the chain, with every
\* other unanswered call chained behind it and still waiting.
C16_Fifo ==
  [][\A r \in Calls :
       /\ (pc[r] \in Free /\ pc'[r] = "queued") =>
            /\ claimLock' = Append(claimLock, r)
            /\ \A q \in Calls \ {r} : pc'[q] = pc[q]
       /\ ((pc[r] = "queued" /\ InCycle(r)') \/ (InCycle(r) /\ pc'[r] = "done")) =>
            /\ IndexOf(r, claimLock, 1) = 1
            /\ \A q \in Calls \ {r} :
                 pc[q] \notin Free =>
                   /\ pc[q] = "queued" /\ pc'[q] = "queued"
                   /\ IndexOf(q, claimLock, 1) > 1]_vars

\* C16 witness: the call of slot 2 was chained before the current call of slot 1;
\* its cycle runs while the call of slot 1 waits.
C16_Witness ==
  /\ claimLock = <<2, 1>>
  /\ pc[2] = "aAppend" /\ pc[1] = "queued"

Malformed(lines) ==
  \/ ~lines.isArray
  \/ \A i \in 1..Len(lines.items) : Trim(lines.items[i]) = <<>>

\* C18. Empty or malformed batch: a call whose `lines` is missing, is no array or
\* holds only blank tokens is answered at once with claimed [] and rejected [],
\* and leaves the chain, the log and every cycle as they are.
C18_EmptyBatch ==
  [][\A r \in Calls :
       (pc[r] \in Free /\ body'[r] # body[r] /\ Malformed(body'[r].lines)) =>
         /\ pc'[r] = "done"
         /\ resp'[r] = [status |-> 200, claimed |-> <<>>, rejected |-> <<>>,
                        error |-> FALSE]
         /\ UNCHANGED <<claimLock, store>>
         /\ \A q \in Calls \ {r} : pc'[q] = pc[q] /\ work'[q] = work[q]]_vars

\* C18 witness: a call with only blank tokens and a limit was answered while a
\* cycle was suspended at its append and the log was still without its grant.
C18_Witness ==
  \E r, q \in Calls :
    /\ r # q /\ Answered(r)
    /\ body[r].lines = ArrayOf(<<Blank, Blank>>)
    /\ resp[r].claimed = <<>> /\ resp[r].rejected = <<>>
    /\ pc[q] = "aAppend" /\ work[q].claimed = <<Y>> /\ Y \notin ReadSet(providedTxt)

\* C14. Single writer, as claimed: every step that adds text to the provided log
\* is the append of the claim cycle that is running; no other handler writes.
C14_SingleWriter ==
  [][Len(providedTxt') > Len(providedTxt) =>
       \E r \in Calls : pc[r] = "aAppend" /\ pc'[r] = "done"]_vars

\* C15. Initialization safety, as claimed: no step removes an identifier from
\* the log.
C15_NeverShrinks ==
  [][ReadSet(providedTxt) \subseteq ReadSet(providedTxt')]_vars

\* the records of the log are pairwise different
NoDuplicates(records) ==
  \A i, j \in 1..Len(records) : records[i] = records[j] => i = j

\* C19. No duplicate records from claims, as claimed: a log that starts empty and
\* that only claim cycles write holds every identifier in at most one record.
C19_NoDuplicates == NoDuplicates(ProvidedLines(providedTxt))

====
